---- MODULE Spec2Model ----
(***************************************************************************)
(* Client-side resilience layer of alerta-ilo-web: the offline operation   *)
(* queue (OfflineQueueService) and the background synchronisation          *)
(* coordinator (BackgroundSyncService).                                    *)
(*                                                                         *)
(* The runtime is single-threaded and event-driven: every action below is  *)
(* one run-to-completion piece of a handler, from one suspension point     *)
(* (an await) to the next.                                                 *)
(***************************************************************************)
EXTENDS Integers, Sequences, FiniteSets, TLC

(***************************************************************************)
(* Bounds of the model.                                                    *)
(***************************************************************************)
\* operations ever enqueued / suspended performSync calls, general specification
MaxOps == 2
MaxDrains == 1
\* the same for the specification of overlapping drains
MaxOverlapOps == 1
MaxOverlapDrains == 2
\* operations ever enqueued in the bulk scenario (more than one batch)
MaxBulkOps == 6
\* operations ever enqueued in the liveness specification
MaxLiveOps == 2

\* steps of the clock in the cache specifications
MaxClock == 5

(***************************************************************************)
(* Program constants.                                                      *)
(***************************************************************************)
MAX_RETRY_COUNT == 3
batchSize == 5
LastErrorsShown == 5
\* CacheService: POSTS_CONFIG, QUERIES_CONFIG, IMAGES_CONFIG
POSTS_maxAge == 120000
POSTS_maxSize == 500
QUERIES_maxAge == 60000
QUERIES_maxSize == 50
IMAGES_maxAge == 86400000
IMAGES_maxSize == 52428800
IMAGES_maxEntries == 100

\* localStorage.getItem of a key never written
Null == [present |-> FALSE, text |-> <<>>]

OpTypes == {"CREATE_REPORT", "UPDATE_PROFILE", "DELETE_REPORT"}

\* payloads: one the backend accepts, one it rejects for good
Payloads == {"valid", "invalid"}

\* error kinds of the backend write capability (AuthService.updateProfile)
TransientErrors == {"unavailable"}
PermanentErrors == {"permission-denied"}

\* operation ids: `${Date.now()}_${random}`, unique and time-ordered
Ids == 1..(MaxBulkOps + 2)

VARIABLES
    queue,            \* OfflineQueueService.queue
    storage,          \* localStorage[STORAGE_KEY]: Null or the serialised queue
    isOnline,         \* OfflineQueueService.isOnline
    processingQueue,  \* OfflineQueueService.processingQueue
    pq,               \* the suspended processQueue() call, if any
    nextId,           \* the id the next addToQueue will produce
    syncInProgress,   \* BackgroundSyncService.syncInProgress
    syncInterval,     \* BackgroundSyncService.syncInterval !== null
    lastSyncTime,     \* BackgroundSyncService.lastSyncTime (0 = null)
    errors,           \* BackgroundSyncService.errors
    drains,           \* the suspended performSync() calls
    backend,          \* the backend: "ok" (reachable) or "unavailable"
    fails,            \* history: failed backend attempts per operation
    written,          \* history: operations whose backend write succeeded
    dropped,          \* history: operations dropped by retry exhaustion
    permFailed,       \* history: operations that got a permanent error
    now,              \* Date.now(), in ms
    version,          \* the version field of the running build's cache configs
    postsStore,       \* localStorage[POSTS_CACHE_KEY], as parsed
    queriesStore,     \* localStorage[QUERIES_CACHE_KEY], as parsed
    imagesStore,      \* localStorage[IMAGES_CACHE_KEY], as parsed
    imagesDB,         \* IndexedDB AlertaIloImageCache, object store 'images'
    fetching,         \* the cacheImage calls suspended on their fetch
    queryBuild,       \* history: the version each cached query was written under
    uncaught          \* history: an exception left a CacheService method

cacheVars == <<now, version, postsStore, queriesStore, imagesStore, imagesDB,
               fetching, queryBuild, uncaught>>

vars == <<queue, storage, isOnline, processingQueue, pq, nextId, syncInProgress,
          syncInterval, lastSyncTime, errors, drains, backend, fails, written,
          dropped, permFailed, cacheVars>>

histVars == <<fails, written, dropped, permFailed>>

\* the state of OfflineQueueService and BackgroundSyncService
syncVars == <<queue, storage, isOnline, processingQueue, pq, nextId,
              syncInProgress, syncInterval, lastSyncTime, errors, drains, backend,
              histVars>>

(***************************************************************************)
(* Helpers on sequences.                                                   *)
(***************************************************************************)
Min(a, b) == IF a < b THEN a ELSE b

\* the history counter saturates at MAX_RETRY_COUNT: "at least that many"
Bump(f, id) == [f EXCEPT ![id] = Min(@ + 1, MAX_RETRY_COUNT)]

RECURSIVE FilterOut(_, _)
\* this.queue.filter(op => op.id !== id)
FilterOut(q, id) ==
    IF q = <<>> THEN <<>>
    ELSE IF Head(q).id = id THEN FilterOut(Tail(q), id)
         ELSE <<Head(q)>> \o FilterOut(Tail(q), id)

QueueIds(q) == {q[i].id : i \in 1..Len(q)}

\* this.queue.find(op => op.id === id): index of the first match, 0 if none
FindIndex(q, id) ==
    IF id \in QueueIds(q)
    THEN CHOOSE i \in 1..Len(q) : q[i].id = id /\ \A j \in 1..(i - 1) : q[j].id # id
    ELSE 0

(***************************************************************************)
(* Persistence: JSON.stringify / JSON.parse of the queue.  The serialised  *)
(* form is a sequence of field tuples, the in-memory form a sequence of    *)
(* records.                                                                *)
(***************************************************************************)
Stringify(q) ==
    [i \in 1..Len(q) |-> <<q[i].id, q[i].type, q[i].data, q[i].retryCount>>]

\* a parse that yields the entries in reverse
Parse_Reversed(s) ==
    [i \in 1..Len(s) |->
        [id |-> s[Len(s) + 1 - i][1], type |-> s[Len(s) + 1 - i][2],
         data |-> s[Len(s) + 1 - i][3], retryCount |-> s[Len(s) + 1 - i][4]]]

Parse(s) ==
    [i \in 1..Len(s) |->
        [id |-> s[i][1], type |-> s[i][2], data |-> s[i][3], retryCount |-> s[i][4]]]

\* loadQueueFromStorage: the queue a fresh process starts with
loadQueueFromStorage(s) == IF ~s.present THEN <<>> ELSE Parse(s.text)

\* saveQueueToStorage: the value written under STORAGE_KEY
saveQueueToStorage(q) == [present |-> TRUE, text |-> Stringify(q)]

(***************************************************************************)
(* BackgroundSyncService's subscriber to the queue's status notifications: *)
(* the new state of the recurring timer after a notification.              *)
(***************************************************************************)
\* the subscriber without its first branch: the timer is never restarted
OnOfflineStatus_NoRestart(online, queued, timer) ==
    IF ~online THEN FALSE ELSE timer

OnOfflineStatus(online, queued, timer) ==
    IF online /\ queued > 0 THEN TRUE
    ELSE IF ~online THEN FALSE
    ELSE timer

(***************************************************************************)
(* processQueue(): the queue's own drain.                                  *)
(***************************************************************************)
IdlePQ == [pc |-> "idle", ops |-> <<>>, idx |-> 0]

\* operationsToProcess = [...this.queue]
Snapshot(q) ==
    [i \in 1..Len(q) |-> [id |-> q[i].id, type |-> q[i].type, data |-> q[i].data]]

\* AuthService.updateProfile(userId, updates) settles: "ok" or the error kind
updateProfile(op) ==
    IF backend = "unavailable" THEN "unavailable"
    ELSE IF op.data = "invalid" THEN "permission-denied"
    ELSE "ok"

\* processQueue() called with queue q in memory: the guard of line 149 and the
\* run up to the first await (the dynamic import inside executeOperation)
ProcessQueueStart(q, online) ==
    IF ~online \/ processingQueue \/ Len(q) = 0
    THEN /\ UNCHANGED <<processingQueue, pq>>
    ELSE /\ processingQueue' = TRUE
         /\ pq' = [pc |-> "import", ops |-> Snapshot(q), idx |-> 1]

(***************************************************************************)
(* OfflineQueueService: public operations and connectivity handlers.       *)
(***************************************************************************)
\* addToQueue(type, data), at most max operations ever enqueued
AddToQueueUpTo(t, data, max) ==
    /\ nextId <= max
    /\ LET q2 == Append(queue, [id |-> nextId, type |-> t, data |-> data,
                                retryCount |-> 0]) IN
         /\ queue' = q2
         /\ storage' = saveQueueToStorage(q2)
         /\ syncInterval' = OnOfflineStatus(isOnline, Len(q2), syncInterval)
         /\ ProcessQueueStart(q2, isOnline)
    /\ nextId' = nextId + 1
    /\ UNCHANGED <<isOnline, syncInProgress, lastSyncTime, errors, drains, backend>>
    /\ UNCHANGED histVars
    /\ UNCHANGED cacheVars

AddToQueue(t, data) == AddToQueueUpTo(t, data, MaxOps)

\* window 'online' listener
OnlineEvent ==
    /\ isOnline' = TRUE
    /\ syncInterval' = OnOfflineStatus(TRUE, Len(queue), syncInterval)
    /\ ProcessQueueStart(queue, TRUE)
    /\ UNCHANGED <<queue, storage, nextId, syncInProgress, lastSyncTime, errors,
                   drains, backend>>
    /\ UNCHANGED histVars
    /\ UNCHANGED cacheVars

\* window 'offline' listener
OfflineEvent ==
    /\ isOnline' = FALSE
    /\ syncInterval' = OnOfflineStatus(FALSE, Len(queue), syncInterval)
    /\ UNCHANGED <<queue, storage, processingQueue, pq, nextId, syncInProgress,
                   lastSyncTime, errors, drains, backend>>
    /\ UNCHANGED histVars
    /\ UNCHANGED cacheVars

\* checkConnectionStatus(): the continuation after the reachability probe
\* settled (reachable = the fetch resolved)
checkConnectionStatus(reachable) ==
    /\ IF reachable
       THEN /\ isOnline' = TRUE
            /\ IF ~isOnline
               THEN /\ syncInterval' = OnOfflineStatus(TRUE, Len(queue), syncInterval)
                    /\ ProcessQueueStart(queue, TRUE)
               ELSE UNCHANGED <<syncInterval, processingQueue, pq>>
       ELSE /\ isOnline' = FALSE
            /\ syncInterval' = IF isOnline
                               THEN OnOfflineStatus(FALSE, Len(queue), syncInterval)
                               ELSE syncInterval
            /\ UNCHANGED <<processingQueue, pq>>
    /\ UNCHANGED <<queue, storage, nextId, syncInProgress, lastSyncTime, errors,
                   drains, backend>>
    /\ UNCHANGED histVars
    /\ UNCHANGED cacheVars

\* everything but the interval timer
notTimerVars == <<queue, storage, isOnline, processingQueue, pq, nextId,
                  syncInProgress, lastSyncTime, errors, drains, backend, histVars,
                  cacheVars>>

\* startAutoSync(), called by the application: the timer is set anew
startAutoSync ==
    /\ syncInterval' = TRUE
    /\ UNCHANGED notTimerVars

\* stopAutoSync(), called by the application
stopAutoSync ==
    /\ syncInterval' = FALSE
    /\ UNCHANGED notTimerVars

\* clearQueue()
clearQueue ==
    /\ queue' = <<>>
    /\ storage' = saveQueueToStorage(<<>>)
    /\ syncInterval' = OnOfflineStatus(isOnline, 0, syncInterval)
    /\ UNCHANGED <<isOnline, processingQueue, pq, nextId, syncInProgress,
                   lastSyncTime, errors, drains, backend>>
    /\ UNCHANGED histVars
    /\ UNCHANGED cacheVars

(***************************************************************************)
(* processQueue(): the loop over the snapshot.                             *)
(***************************************************************************)
\* the loop moves on with queue q in memory: the next executeOperation runs up
\* to its dynamic import, or the loop ends (lines 183-185): save, notify,
\* release the flag
ProcessQueueNext(q) ==
    /\ queue' = q
    /\ IF pq.idx < Len(pq.ops)
       THEN /\ pq' = [pq EXCEPT !.idx = @ + 1, !.pc = "import"]
            /\ UNCHANGED <<storage, syncInterval, processingQueue>>
       ELSE /\ pq' = IdlePQ
            /\ storage' = saveQueueToStorage(q)
            /\ syncInterval' = OnOfflineStatus(isOnline, Len(q), syncInterval)
            /\ processingQueue' = FALSE

\* the catch block of lines 166-180: the queue after a failed executeOperation
RetryOrDrop(q, id) ==
    LET i == FindIndex(q, id) IN
    IF i = 0 THEN q
    ELSE IF q[i].retryCount + 1 >= MAX_RETRY_COUNT
         THEN FilterOut(q, id)
         ELSE [q EXCEPT ![i].retryCount = @ + 1]

\* whether the catch block drops the operation
Drops(q, id) ==
    LET i == FindIndex(q, id) IN
    i # 0 /\ q[i].retryCount + 1 >= MAX_RETRY_COUNT

\* executeOperation resumes after `await import('./AuthService')`
ProcessQueueResume ==
    /\ pq.pc = "import"
    /\ LET op == pq.ops[pq.idx] IN
         IF op.type = "UPDATE_PROFILE"
         THEN \* AuthService.updateProfile(userId, updates) is called
              /\ pq' = [pq EXCEPT !.pc = "write"]
              /\ UNCHANGED <<queue, storage, syncInterval, processingQueue>>
         ELSE \* CREATE_REPORT / DELETE_REPORT: logged only, resolves
              ProcessQueueNext(FilterOut(queue, op.id))
    /\ UNCHANGED <<isOnline, nextId, syncInProgress, lastSyncTime, errors, drains,
                   backend>>
    /\ UNCHANGED histVars
    /\ UNCHANGED cacheVars

\* the backend write issued by executeOperation settles
ProcessQueueReturn ==
    /\ pq.pc = "write"
    /\ LET op == pq.ops[pq.idx] IN
         IF updateProfile(op) = "ok"
         THEN /\ ProcessQueueNext(FilterOut(queue, op.id))
              /\ written' = written \cup {op.id}
              /\ UNCHANGED <<fails, dropped, permFailed>>
         ELSE /\ ProcessQueueNext(RetryOrDrop(queue, op.id))
              /\ fails' = Bump(fails, op.id)
              /\ dropped' = IF Drops(queue, op.id) THEN dropped \cup {op.id} ELSE dropped
              /\ permFailed' = IF updateProfile(op) \in PermanentErrors
                               THEN permFailed \cup {op.id} ELSE permFailed
              /\ UNCHANGED written
    /\ UNCHANGED <<isOnline, nextId, syncInProgress, lastSyncTime, errors, drains,
                   backend>>
    /\ UNCHANGED cacheVars

(***************************************************************************)
(* removeFromQueue(operationId), as called by syncOperation.               *)
(***************************************************************************)
\* a removal that leaves the queue as it is
removeFromQueue_Keep(id) == UNCHANGED <<queue, storage, syncInterval>>

removeFromQueue(id) ==
    IF id \in QueueIds(queue)
    THEN LET q2 == FilterOut(queue, id) IN
           /\ queue' = q2
           /\ storage' = saveQueueToStorage(q2)
           /\ syncInterval' = OnOfflineStatus(isOnline, Len(q2), syncInterval)
    ELSE UNCHANGED <<queue, storage, syncInterval>>

(***************************************************************************)
(* BackgroundSyncService.performSync.                                      *)
(*                                                                         *)
(* A suspended call is a record: the snapshot ops, the offset start of the  *)
(* current batch, and per operation of the batch its state st[i]:          *)
(* "import" (syncOperation awaits the handler's first await), "write" (the *)
(* backend write is in flight), "ok", or the error it failed with.         *)
(***************************************************************************)
IdleDrain == [pc |-> "idle", ops |-> <<>>, start |-> 0, st |-> <<>>, errs |-> <<>>]

\* the whole rest of the snapshot as one batch
BatchStates_Whole(ops, start) ==
    [i \in 1..(Len(ops) - start) |-> "import"]

\* pendingOperations.slice(i, i + batchSize), as the states of its members
BatchStates(ops, start) ==
    [i \in 1..Min(batchSize, Len(ops) - start) |-> "import"]

AllSettled(st) == \A i \in 1..Len(st) : st[i] \notin {"import", "write"}

\* lines 150-161: the syncErrors entries of a settled batch, in batch order
BatchErrors(dr, st) ==
    LET failed == SelectSeq([i \in 1..Len(st) |-> i], LAMBDA i : st[i] # "ok") IN
    [k \in 1..Len(failed) |->
        [id |-> dr.ops[dr.start + failed[k]].id, error |-> st[failed[k]]]]

\* the same without the finally block
EmptyQueueSync_NoFinally ==
    /\ lastSyncTime' = 1
    /\ errors' = <<>>
    /\ syncInProgress' = TRUE
    /\ UNCHANGED drains

\* performSync past its guard when the queue is empty: lines 118-135 and the
\* finally block, no await in between
EmptyQueueSync ==
    /\ lastSyncTime' = 1
    /\ errors' = <<>>
    /\ syncInProgress' = FALSE
    /\ UNCHANGED drains

\* lines 110-115: what performSync returns when the guard of line 108 holds
AlreadyInProgress ==
    [success |-> FALSE, syncedOperations |-> 0, failedOperations |-> 0,
     errors |-> <<"Sincronizacion ya en progreso">>]

\* performSync without the guard of line 108
performSync_NoGuard(force) ==
    /\ IF Len(queue) = 0
       THEN EmptyQueueSync
       ELSE /\ \E d \in DOMAIN drains :
                 /\ drains[d].pc = "idle"
                 /\ \A e \in DOMAIN drains : drains[e].pc = "idle" => d <= e
                 /\ drains' = [drains EXCEPT ![d] =
                        [pc |-> "batch", ops |-> Snapshot(queue), start |-> 0,
                         st |-> BatchStates(Snapshot(queue), 0), errs |-> <<>>]]
            /\ syncInProgress' = TRUE
            /\ errors' = <<>>
            /\ UNCHANGED lastSyncTime
    /\ UNCHANGED <<queue, storage, isOnline, processingQueue, pq, nextId,
                   syncInterval, backend>>
    /\ UNCHANGED histVars
    /\ UNCHANGED cacheVars

\* performSync(force), lines 107-148 up to the first await
performSync(force) ==
    IF syncInProgress /\ ~force
    THEN \* returns AlreadyInProgress before any assignment
         UNCHANGED vars
    ELSE
    /\ IF Len(queue) = 0
       THEN EmptyQueueSync
       ELSE /\ \E d \in DOMAIN drains :
                 /\ drains[d].pc = "idle"
                 /\ \A e \in DOMAIN drains : drains[e].pc = "idle" => d <= e
                 /\ drains' = [drains EXCEPT ![d] =
                        [pc |-> "batch", ops |-> Snapshot(queue), start |-> 0,
                         st |-> BatchStates(Snapshot(queue), 0), errs |-> <<>>]]
            /\ syncInProgress' = TRUE
            /\ errors' = <<>>
            /\ UNCHANGED lastSyncTime
    /\ UNCHANGED <<queue, storage, isOnline, processingQueue, pq, nextId,
                   syncInterval, backend>>
    /\ UNCHANGED histVars
    /\ UNCHANGED cacheVars

\* the setInterval callback of startAutoSync
TimerTick == syncInterval /\ performSync(FALSE)

\* the service worker's BACKGROUND_SYNC message
ServiceWorkerSync == performSync(FALSE)

\* forceSyncNow()
forceSyncNow == performSync(TRUE)

\* the same without the finally block: the flag is left as it is
BatchSettled_NoFinally(d, st) ==
    LET dr == drains[d]
        errs == dr.errs \o BatchErrors(dr, st) IN
    IF ~AllSettled(st)
    THEN /\ drains' = [drains EXCEPT ![d].st = st]
         /\ UNCHANGED <<syncInProgress, lastSyncTime, errors>>
    ELSE IF dr.start + batchSize < Len(dr.ops)
    THEN /\ drains' = [drains EXCEPT ![d].st = st, ![d].errs = errs, ![d].pc = "pause"]
         /\ UNCHANGED <<syncInProgress, lastSyncTime, errors>>
    ELSE /\ drains' = [drains EXCEPT ![d] = IdleDrain]
         /\ lastSyncTime' = 1
         /\ errors' = errs
         /\ UNCHANGED syncInProgress

\* drain d's batch takes the states st: when the last member settled,
\* Promise.allSettled resolves and lines 150-195 run
BatchSettled(d, st) ==
    LET dr == drains[d]
        errs == dr.errs \o BatchErrors(dr, st) IN
    IF ~AllSettled(st)
    THEN /\ drains' = [drains EXCEPT ![d].st = st]
         /\ UNCHANGED <<syncInProgress, lastSyncTime, errors>>
    ELSE IF dr.start + batchSize < Len(dr.ops)
    THEN \* the pause between batches
         /\ drains' = [drains EXCEPT ![d].st = st, ![d].errs = errs, ![d].pc = "pause"]
         /\ UNCHANGED <<syncInProgress, lastSyncTime, errors>>
    ELSE /\ drains' = [drains EXCEPT ![d] = IdleDrain]
         /\ lastSyncTime' = 1
         /\ errors' = errs
         /\ syncInProgress' = FALSE

\* syncOperation resumes after the first await of its handler
syncOperationResume(d, i) ==
    /\ drains[d].pc = "batch"
    /\ i \in 1..Len(drains[d].st)
    /\ drains[d].st[i] = "import"
    /\ LET op == drains[d].ops[drains[d].start + i] IN
         IF op.type = "UPDATE_PROFILE"
         THEN \* AuthService.updateProfile(userId, updates) is called
              /\ drains' = [drains EXCEPT ![d].st[i] = "write"]
              /\ UNCHANGED <<queue, storage, syncInterval, syncInProgress,
                             lastSyncTime, errors>>
         ELSE \* syncCreatePost / syncDeletePost resolved
              /\ removeFromQueue(op.id)
              /\ BatchSettled(d, [drains[d].st EXCEPT ![i] = "ok"])
    /\ UNCHANGED <<isOnline, processingQueue, pq, nextId, backend>>
    /\ UNCHANGED histVars
    /\ UNCHANGED cacheVars

\* the backend write issued by syncUpdateProfile settles
syncOperationReturn(d, i) ==
    /\ drains[d].pc = "batch"
    /\ i \in 1..Len(drains[d].st)
    /\ drains[d].st[i] = "write"
    /\ LET op == drains[d].ops[drains[d].start + i] IN
         IF updateProfile(op) = "ok"
         THEN /\ removeFromQueue(op.id)
              /\ BatchSettled(d, [drains[d].st EXCEPT ![i] = "ok"])
              /\ written' = written \cup {op.id}
              /\ UNCHANGED <<fails, dropped, permFailed>>
         ELSE \* the catch block of lines 221-224
              /\ BatchSettled(d, [drains[d].st EXCEPT ![i] = updateProfile(op)])
              /\ fails' = Bump(fails, op.id)
              /\ permFailed' = IF updateProfile(op) \in PermanentErrors
                               THEN permFailed \cup {op.id} ELSE permFailed
              /\ UNCHANGED <<queue, storage, syncInterval, written, dropped>>
    /\ UNCHANGED <<isOnline, processingQueue, pq, nextId, backend>>
    /\ UNCHANGED cacheVars

\* the pause of line 165 elapsed: the next batch starts
NextBatch(d) ==
    /\ drains[d].pc = "pause"
    /\ drains' = [drains EXCEPT ![d].pc = "batch",
                                ![d].start = @ + batchSize,
                                ![d].st = BatchStates(drains[d].ops,
                                                      drains[d].start + batchSize)]
    /\ UNCHANGED <<queue, storage, isOnline, processingQueue, pq, nextId,
                   syncInProgress, syncInterval, lastSyncTime, errors, backend>>
    /\ UNCHANGED histVars
    /\ UNCHANGED cacheVars

(***************************************************************************)
(* CacheService.                                                           *)
(*                                                                         *)
(* A localStorage cache is the parsed object: the sequence of its entries  *)
(* in key order (the order in which the keys were first set), each entry   *)
(* with its key.  The IndexedDB object store is a set of entries keyed by  *)
(* url.                                                                    *)
(***************************************************************************)
\* the version of the source, and the version of a later build
Versions == {"1.0.0", "1.0.1"}

\* cache keys, as the kind of the key and a number: 'all_posts' and the n-th
\* `user_${userId}`; the n-th query key, like 'near:-17.64,-71.33'
PostKeys == {<<"all_posts", 0>>, <<"user", 1>>}
QueryKeys == {<<"near", 1>>}

\* enough keys to fill a cache beyond its maxSize
AllPostKeys == {<<"all_posts", 0>>} \cup {<<"user", n>> : n \in 1..POSTS_maxSize}
AllQueryKeys == {<<"near", n>> : n \in 1..(QUERIES_maxSize + 2)}

\* image urls: storage urls, and urls for which url.startsWith('blob:')
StorageUrls == {"img1", "img2", "img3"}
BlobUrls == {"blob:1"}

\* blob.size of the images fetched
BlobSizes == {20 * 1024 * 1024, 60 * 1024 * 1024}

\* the clock moves in steps of half the shortest time to live
ClockStep == QUERIES_maxAge \div 2

\* a Post[] handed to the cache: createdAt is a Date
SomePosts == <<[id |-> "p1", createdAt |-> [type |-> "Date", ms |-> 0]]>>

\* JSON.parse(JSON.stringify(posts)): a Date comes back as a string
ThroughJSON(posts) ==
    [i \in 1..Len(posts) |->
        [id |-> posts[i].id,
         createdAt |-> [type |-> "string", ms |-> posts[i].createdAt.ms]]]

\* what a getter returns: null, or the data of the entry
Miss == [found |-> FALSE, data |-> <<>>]
Hit(data) == [found |-> TRUE, data |-> data]

\* cache[key]: the index of the entry, 0 if there is none
EntryIndex(cache, key) ==
    IF \E i \in 1..Len(cache) : cache[i].key = key
    THEN CHOOSE i \in 1..Len(cache) : cache[i].key = key
    ELSE 0

\* cache[key] = entry
SetEntry(cache, key, entry) ==
    IF EntryIndex(cache, key) = 0 THEN Append(cache, entry)
    ELSE [cache EXCEPT ![EntryIndex(cache, key)] = entry]

\* delete cache[key]
DeleteEntry(cache, key) == SelectSeq(cache, LAMBDA e : e.key # key)

\* entries.sort((a, b) => b.timestamp - a.timestamp): newest first
SortRank_Desc(cache, i) ==
    Cardinality({j \in 1..Len(cache) :
        \/ cache[j].timestamp > cache[i].timestamp
        \/ cache[j].timestamp = cache[i].timestamp /\ j < i}) + 1

\* the place of entry i after entries.sort((a, b) => a.timestamp - b.timestamp):
\* the sort is stable
SortRank(cache, i) ==
    Cardinality({j \in 1..Len(cache) :
        \/ cache[j].timestamp < cache[i].timestamp
        \/ cache[j].timestamp = cache[i].timestamp /\ j < i}) + 1

\* limitCacheSize(cache, maxSize): the cache without its oldest entries
limitCacheSize(cache, maxSize) ==
    IF Len(cache) > maxSize
    THEN LET keep == {i \in 1..Len(cache) : SortRank(cache, i) > Len(cache) - maxSize} IN
           SelectSeq([i \in 1..Len(cache) |-> [e |-> cache[i], at |-> i]],
                     LAMBDA x : x.at \in keep)
    ELSE [i \in 1..Len(cache) |-> [e |-> cache[i], at |-> i]]

\* the entries of a limitCacheSize result
Entries(tagged) == [i \in 1..Len(tagged) |-> tagged[i].e]

\* cachePosts(posts, cacheKey)
cachePosts(posts, key) ==
    /\ LET entry == [key |-> key, data |-> ThroughJSON(posts), timestamp |-> now,
                     expiresAt |-> now + POSTS_maxAge, version |-> version] IN
         postsStore' = Entries(limitCacheSize(SetEntry(postsStore, key, entry),
                                              POSTS_maxSize))
    /\ UNCHANGED <<now, version, queriesStore, imagesStore, imagesDB, fetching,
                   queryBuild, uncaught>>
    /\ UNCHANGED syncVars

\* what getCachedPosts(cacheKey) returns
getCachedPostsResult(key) ==
    LET i == EntryIndex(postsStore, key) IN
    IF i = 0 THEN Miss
    ELSE IF now > postsStore[i].expiresAt THEN Miss
    ELSE IF postsStore[i].version # version THEN Miss
    ELSE Hit(postsStore[i].data)

\* what getCachedPosts(cacheKey) leaves in storage: an expired or outdated
\* entry is deleted and the cache saved
postsAfterGet(key) ==
    IF EntryIndex(postsStore, key) # 0 /\ ~getCachedPostsResult(key).found
    THEN DeleteEntry(postsStore, key)
    ELSE postsStore

\* getCachedPosts(cacheKey)
getCachedPosts(key) ==
    /\ postsStore' = postsAfterGet(key)
    /\ UNCHANGED <<now, version, queriesStore, imagesStore, imagesDB, fetching,
                   queryBuild, uncaught>>
    /\ UNCHANGED syncVars

\* the cacheKey of invalidatePostsCache() called without an argument
NoKey == <<"undefined", 0>>

\* invalidatePostsCache(cacheKey?): with a key, delete cache[cacheKey] and save;
\* without, localStorage.removeItem(POSTS_CACHE_KEY)
invalidatePostsCache(key) ==
    /\ postsStore' = IF key # NoKey THEN DeleteEntry(postsStore, key) ELSE <<>>
    /\ UNCHANGED <<now, version, queriesStore, imagesStore, imagesDB, fetching,
                   queryBuild, uncaught>>
    /\ UNCHANGED syncVars

\* cacheQuery(queryKey, posts)
cacheQuery(key, posts) ==
    /\ LET entry == [key |-> key, posts |-> ThroughJSON(posts), timestamp |-> now,
                     expiresAt |-> now + QUERIES_maxAge] IN
         queriesStore' = Entries(limitCacheSize(SetEntry(queriesStore, key, entry),
                                                QUERIES_maxSize))
    /\ queryBuild' = [queryBuild EXCEPT ![key] = version]
    /\ UNCHANGED <<now, version, postsStore, imagesStore, imagesDB, fetching,
                   uncaught>>
    /\ UNCHANGED syncVars

\* what getCachedQuery(queryKey) returns
getCachedQueryResult(key) ==
    LET i == EntryIndex(queriesStore, key) IN
    IF i = 0 THEN Miss
    ELSE IF now > queriesStore[i].expiresAt THEN Miss
    ELSE Hit(queriesStore[i].posts)

\* what getCachedQuery(queryKey) leaves in storage: an expired entry is
\* deleted and the cache saved
queriesAfterGet(key) ==
    IF EntryIndex(queriesStore, key) # 0 /\ ~getCachedQueryResult(key).found
    THEN DeleteEntry(queriesStore, key)
    ELSE queriesStore

\* getCachedQuery(queryKey)
getCachedQuery(key) ==
    /\ queriesStore' = queriesAfterGet(key)
    /\ UNCHANGED <<now, version, postsStore, imagesStore, imagesDB, fetching,
                   queryBuild, uncaught>>
    /\ UNCHANGED syncVars

\* store.delete(url) on the IndexedDB object store
DeleteFromDB(db, urls) == {e \in db : e.url \notin urls}

\* whether getCachedImageBlob(url) finds an entry that has expired
ImageExpired(url) ==
    LET i == EntryIndex(imagesStore, url) IN
    i # 0 /\ now - imagesStore[i].timestamp > IMAGES_maxAge

\* what getCachedImageBlob(url) returns: the entry's blob, here its size
getCachedImageBlobResult(url) ==
    LET i == EntryIndex(imagesStore, url) IN
    IF i = 0 THEN Miss
    ELSE IF ImageExpired(url) THEN Miss
    ELSE Hit(<<imagesStore[i].size>>)

\* getCachedImageBlob(url): an expired entry is deleted from the parsed
\* object, which is dropped, and from IndexedDB
getCachedImageBlob(url) ==
    /\ imagesDB' = IF ImageExpired(url) THEN DeleteFromDB(imagesDB, {url}) ELSE imagesDB
    /\ UNCHANGED <<now, version, postsStore, queriesStore, imagesStore, fetching,
                   queryBuild, uncaught>>
    /\ UNCHANGED syncVars

\* cacheImage(url) up to `await fetch(url)`
cacheImage(url) ==
    /\ IF url \in BlobUrls
       THEN UNCHANGED <<imagesDB, fetching>>
       ELSE /\ imagesDB' = IF ImageExpired(url)
                           THEN DeleteFromDB(imagesDB, {url}) ELSE imagesDB
            /\ fetching' = IF getCachedImageBlobResult(url).found
                           THEN fetching ELSE fetching \cup {url}
    /\ UNCHANGED <<now, version, postsStore, queriesStore, imagesStore, queryBuild, uncaught>>
    /\ UNCHANGED syncVars

\* entries.reduce((sum, entry) => sum + entry.size, 0) over the entries idx
SizeOf(cache, idx) ==
    LET RECURSIVE Sum(_)
        Sum(S) == IF S = {} THEN 0
                  ELSE LET i == CHOOSE i \in S : TRUE IN cache[i].size + Sum(S \ {i})
    IN Sum(idx)

\* limitImageCacheSize(cache): the urls it deletes, oldest first until the
\* size and the count are within the limits
limitImageCacheSize(cache) ==
    LET all == 1..Len(cache)
        Rest(r) == {i \in all : SortRank(cache, i) > r}
        Fits(r) == /\ SizeOf(cache, Rest(r)) <= IMAGES_maxSize
                   /\ Cardinality(Rest(r)) <= IMAGES_maxEntries
        r == CHOOSE r \in 0..Len(cache) : Fits(r) /\ \A q \in 0..(r - 1) : ~Fits(q)
    IN {cache[i].key : i \in all \ Rest(r)}

\* cacheImage(url) after fetch and response.blob() settled (nothing is read
\* or written between the two awaits)
cacheImageFetched(url, ok, size) ==
    /\ url \in fetching
    /\ fetching' = fetching \ {url}
    /\ IF ok
       THEN LET entry == [key |-> url, url |-> url, timestamp |-> now, size |-> size]
                cache == SetEntry(imagesStore, url, entry)
                deleted == limitImageCacheSize(cache) IN
              \* deleteImageFromIndexedDB for each, then saveImageToIndexedDB:
              \* the requests are served in the order they were made
              imagesDB' = DeleteFromDB(DeleteFromDB(imagesDB, deleted), {url})
                            \cup {[url |-> url, timestamp |-> now, size |-> size]}
       ELSE UNCHANGED imagesDB
    /\ UNCHANGED <<now, version, postsStore, queriesStore, imagesStore, queryBuild, uncaught>>
    /\ UNCHANGED syncVars

\* what cleanExpiredEntries() leaves in each of the four stores; the blobs
\* it deletes from IndexedDB are those of the expired entries of the index
postsAfterSweep == SelectSeq(postsStore, LAMBDA e : ~(now > e.expiresAt))

imagesAfterSweep ==
    SelectSeq(imagesStore, LAMBDA e : ~(now - e.timestamp > IMAGES_maxAge))

imagesDBAfterSweep ==
    DeleteFromDB(imagesDB,
                 {imagesStore[i].key : i \in {j \in 1..Len(imagesStore) :
                      now - imagesStore[j].timestamp > IMAGES_maxAge}})

queriesAfterSweep == SelectSeq(queriesStore, LAMBDA e : ~(now > e.expiresAt))

\* cleanExpiredEntries()
cleanExpiredEntries ==
    /\ postsStore' = postsAfterSweep
    /\ imagesStore' = imagesAfterSweep
    /\ imagesDB' = imagesDBAfterSweep
    /\ queriesStore' = queriesAfterSweep

\* the setInterval callback of initializeCache
CleanupTimer ==
    /\ cleanExpiredEntries
    /\ UNCHANGED <<now, version, fetching, queryBuild, uncaught>>
    /\ UNCHANGED syncVars

\* cleanExpiredEntries() when its n-th localStorage.setItem throws (the quota
\* is exceeded, or storage is disabled): the caches saved before it keep their
\* sweep, the others stay as they were
cleanExpiredEntriesThrows(n) ==
    /\ postsStore' = IF n > 1 THEN postsAfterSweep ELSE postsStore
    /\ imagesDB' = IF n > 1 THEN imagesDBAfterSweep ELSE imagesDB
    /\ imagesStore' = IF n > 2 THEN imagesAfterSweep ELSE imagesStore
    /\ queriesStore' = queriesStore

\* the setInterval callback when a setItem of the sweep throws: nothing
\* catches the exception
CleanupTimerThrows(n) ==
    /\ cleanExpiredEntriesThrows(n)
    /\ uncaught' = TRUE
    /\ UNCHANGED <<now, version, fetching, queryBuild>>
    /\ UNCHANGED syncVars

\* cachePosts(posts, cacheKey) when localStorage.setItem throws: the catch
\* logs the error and nothing is stored
cachePostsThrows(posts, key) ==
    /\ UNCHANGED cacheVars
    /\ UNCHANGED syncVars

\* cacheQuery(queryKey, posts) when localStorage.setItem throws
cacheQueryThrows(key, posts) ==
    /\ UNCHANGED cacheVars
    /\ UNCHANGED syncVars

\* getCachedPosts(cacheKey) when the setItem that saves the purge throws: the
\* catch returns null and the entry stays in storage
getCachedPostsThrows(key) ==
    /\ postsAfterGet(key) # postsStore
    /\ UNCHANGED cacheVars
    /\ UNCHANGED syncVars

\* getCachedQuery(queryKey) when the setItem that saves the purge throws
getCachedQueryThrows(key) ==
    /\ queriesAfterGet(key) # queriesStore
    /\ UNCHANGED cacheVars
    /\ UNCHANGED syncVars

\* the calls of localStorage.setItem in cleanExpiredEntries
SweepWrites == 1..3

\* Date.now() moves on
Tick ==
    /\ now < MaxClock * ClockStep
    /\ now' = now + ClockStep
    /\ UNCHANGED <<version, postsStore, queriesStore, imagesStore, imagesDB,
                   fetching, queryBuild, uncaught>>
    /\ UNCHANGED syncVars

\* a day passes: more than the time to live of an image
DayPasses ==
    /\ now < IMAGES_maxAge
    /\ now' = now + IMAGES_maxAge + ClockStep
    /\ UNCHANGED <<version, postsStore, queriesStore, imagesStore, imagesDB,
                   fetching, queryBuild, uncaught>>
    /\ UNCHANGED syncVars

\* the page is reloaded with a build whose cache configs carry another
\* version: CacheService is constructed anew over the same storage
Upgrade ==
    /\ version = "1.0.0"
    /\ version' = "1.0.1"
    /\ cleanExpiredEntries
    /\ fetching' = {}
    /\ UNCHANGED <<now, queryBuild, uncaught>>
    /\ UNCHANGED syncVars

(***************************************************************************)
(* Environment.                                                            *)
(***************************************************************************)
\* the backend becomes reachable / unreachable
SetBackend(b) ==
    /\ b # backend
    /\ backend' = b
    /\ UNCHANGED <<queue, storage, isOnline, processingQueue, pq, nextId,
                   syncInProgress, syncInterval, lastSyncTime, errors, drains>>
    /\ UNCHANGED histVars
    /\ UNCHANGED cacheVars

\* the page is reloaded: both singletons are constructed anew, the queue is
\* rehydrated from storage, every suspended call is gone
Restart ==
    /\ queue' = loadQueueFromStorage(storage)
    /\ isOnline' \in BOOLEAN
    /\ processingQueue' = FALSE
    /\ pq' = IdlePQ
    /\ syncInProgress' = FALSE
    /\ syncInterval' = TRUE
    /\ lastSyncTime' = 0
    /\ errors' = <<>>
    /\ drains' = [d \in DOMAIN drains |-> IdleDrain]
    /\ cleanExpiredEntries
    /\ fetching' = {}
    /\ UNCHANGED <<storage, nextId, backend, now, version, queryBuild, uncaught>>
    /\ UNCHANGED histVars

(***************************************************************************)
(* Specifications.                                                         *)
(***************************************************************************)
InitSync(slots) ==
    /\ queue = <<>>
    /\ storage = Null
    /\ isOnline \in BOOLEAN
    /\ processingQueue = FALSE
    /\ pq = IdlePQ
    /\ nextId = 1
    /\ syncInProgress = FALSE
    /\ syncInterval = TRUE
    /\ lastSyncTime = 0
    /\ errors = <<>>
    /\ drains = [d \in 1..slots |-> IdleDrain]
    /\ backend \in {"ok", "unavailable"}
    /\ fails = [id \in Ids |-> 0]
    /\ written = {}
    /\ dropped = {}
    /\ permFailed = {}

\* the cache of a first visit: nothing persisted yet
InitCaches ==
    /\ now = 0
    /\ version = "1.0.0"
    /\ postsStore = <<>>
    /\ queriesStore = <<>>
    /\ imagesStore = <<>>
    /\ imagesDB = {}
    /\ fetching = {}
    /\ queryBuild = [k \in AllQueryKeys |-> "1.0.0"]
    /\ uncaught = FALSE

InitWith(slots) == InitSync(slots) /\ InitCaches

\* the operations the model enqueues: a report (never a backend write in this
\* code), a profile update the backend accepts, one it rejects
Enqueued ==
    {<<"CREATE_REPORT", "valid">>, <<"UPDATE_PROFILE", "valid">>,
     <<"UPDATE_PROFILE", "invalid">>}

\* every step but addToQueue and the pause between batches
Steps ==
    \/ OnlineEvent
    \/ OfflineEvent
    \/ \E r \in BOOLEAN : checkConnectionStatus(r)
    \/ clearQueue
    \/ ProcessQueueResume
    \/ ProcessQueueReturn
    \/ TimerTick
    \/ ServiceWorkerSync
    \/ forceSyncNow
    \/ \E d \in DOMAIN drains, i \in 1..batchSize : syncOperationResume(d, i)
    \/ \E d \in DOMAIN drains, i \in 1..batchSize : syncOperationReturn(d, i)
    \/ \E b \in {"ok", "unavailable"} : SetBackend(b)
    \/ Restart

(* The general specification.  With at most MaxOps < batchSize operations   *)
(* a drain has one batch, so the pause between batches is never reached.   *)
Init == InitWith(MaxDrains)

Next ==
    \/ \E e \in Enqueued : AddToQueue(e[1], e[2])
    \/ Steps

Spec == Init /\ [][Next]_vars

(* Overlapping drains: several performSync calls suspended at once.        *)
InitOverlap == InitWith(MaxOverlapDrains)

NextOverlap ==
    \/ \E e \in Enqueued : AddToQueueUpTo(e[1], e[2], MaxOverlapOps)
    \/ Steps

SpecOverlap == InitOverlap /\ [][NextOverlap]_vars

(* The bulk scenario: the client stays offline, profile updates pile up in *)
(* the queue, and the first drain of the session (lastSyncTime is still    *)
(* null) is started by hand or by the service worker; a drain of more than *)
(* batchSize operations has several batches.                               *)
InitBulk == InitWith(MaxDrains) /\ isOnline = FALSE

NextBulk ==
    \/ AddToQueueUpTo("UPDATE_PROFILE", "valid", MaxBulkOps)
    \/ lastSyncTime = 0 /\ ServiceWorkerSync
    \/ lastSyncTime = 0 /\ forceSyncNow
    \/ \E d \in DOMAIN drains, i \in 1..batchSize : syncOperationResume(d, i)
    \/ \E d \in DOMAIN drains, i \in 1..batchSize : syncOperationReturn(d, i)
    \/ \E d \in DOMAIN drains : NextBatch(d)
    \/ \E b \in {"ok", "unavailable"} : SetBackend(b)

SpecBulk == InitBulk /\ [][NextBulk]_vars

(* Liveness: the running process (no reload, no clearQueue), operations    *)
(* the backend accepts.  The event loop runs every continuation whose      *)
(* await settled and fires the interval timer while it is set.  Without    *)
(* forced calls performSync starts only while syncInProgress is unset, so  *)
(* one call at most is suspended: a single slot is exact here.             *)
LiveSlots == {1}

InitLive == InitWith(Cardinality(LiveSlots))

EnqueuedLive == {<<"CREATE_REPORT", "valid">>, <<"UPDATE_PROFILE", "valid">>}

NextLive ==
    \/ \E e \in EnqueuedLive : AddToQueueUpTo(e[1], e[2], MaxLiveOps)
    \/ OnlineEvent
    \/ OfflineEvent
    \/ \E r \in BOOLEAN : checkConnectionStatus(r)
    \/ ProcessQueueResume
    \/ ProcessQueueReturn
    \/ TimerTick
    \/ \E d \in DOMAIN drains, i \in 1..batchSize : syncOperationResume(d, i)
    \/ \E d \in DOMAIN drains, i \in 1..batchSize : syncOperationReturn(d, i)
    \/ \E b \in {"ok", "unavailable"} : SetBackend(b)

Fairness ==
    /\ WF_vars(TimerTick)
    /\ WF_vars(ProcessQueueResume)
    /\ WF_vars(ProcessQueueReturn)
    /\ \A d \in LiveSlots, i \in 1..batchSize :
          /\ WF_vars(syncOperationResume(d, i))
          /\ WF_vars(syncOperationReturn(d, i))

SpecLive == InitLive /\ [][NextLive]_vars /\ Fairness

(* The application stops and starts the automatic synchronisation while    *)
(* the client stays online in one running process.                         *)
InitStop == InitWith(MaxDrains) /\ isOnline

NextStop ==
    \/ \E e \in Enqueued : AddToQueue(e[1], e[2])
    \/ startAutoSync
    \/ stopAutoSync
    \/ clearQueue
    \/ ProcessQueueResume
    \/ ProcessQueueReturn
    \/ TimerTick
    \/ \E d \in DOMAIN drains, i \in 1..batchSize : syncOperationResume(d, i)
    \/ \E d \in DOMAIN drains, i \in 1..batchSize : syncOperationReturn(d, i)
    \/ \E b \in {"ok", "unavailable"} : SetBackend(b)

SpecStop == InitStop /\ [][NextStop]_vars

\* The caches of posts and of queries.
InitCache == InitWith(MaxDrains) /\ isOnline /\ backend = "ok"

NextCache ==
    \/ Tick
    \/ Upgrade
    \/ CleanupTimer
    \/ \E k \in PostKeys : cachePosts(SomePosts, k)
    \/ \E k \in PostKeys : getCachedPosts(k)
    \/ \E k \in PostKeys \cup {NoKey} : invalidatePostsCache(k)
    \/ \E k \in QueryKeys : cacheQuery(k, SomePosts)
    \/ \E k \in QueryKeys : getCachedQuery(k)

SpecCache == InitCache /\ [][NextCache]_vars

\* The cache of images.
NextImages ==
    \/ Tick
    \/ DayPasses
    \/ CleanupTimer
    \/ \E u \in StorageUrls \cup BlobUrls : cacheImage(u)
    \/ \E u \in StorageUrls : \E ok \in BOOLEAN : \E size \in BlobSizes :
          cacheImageFetched(u, ok, size)
    \/ \E u \in StorageUrls : getCachedImageBlob(u)

SpecImages == InitCache /\ [][NextImages]_vars

\* The cache over a storage that refuses writes now and then.
NextQuota ==
    \/ Tick
    \/ CleanupTimer
    \/ \E n \in SweepWrites : CleanupTimerThrows(n)
    \/ \E k \in PostKeys :
          \/ cachePosts(SomePosts, k)
          \/ cachePostsThrows(SomePosts, k)
          \/ getCachedPosts(k)
          \/ getCachedPostsThrows(k)
    \/ \E k \in QueryKeys :
          \/ cacheQuery(k, SomePosts)
          \/ cacheQueryThrows(k, SomePosts)
          \/ getCachedQuery(k)
          \/ getCachedQueryThrows(k)

SpecQuota == InitCache /\ [][NextQuota]_vars

\* The caches at their maxSize.  The stores hold what earlier puts left: every
\* key was put at time 0, and the keys outside `old` were put again at
\* ClockStep, which keeps their place in the object.
ProbePlaces(maxSize) == {1, maxSize}

FilledPostKey(i) == IF i = 1 THEN <<"all_posts", 0>> ELSE <<"user", i - 1>>

FilledPosts(old) ==
    [i \in 1..POSTS_maxSize |->
        LET t == IF i \in old THEN 0 ELSE ClockStep IN
        [key |-> FilledPostKey(i), data |-> ThroughJSON(SomePosts), timestamp |-> t,
         expiresAt |-> t + POSTS_maxAge, version |-> "1.0.0"]]

FilledQueries(old) ==
    [i \in 1..QUERIES_maxSize |->
        LET t == IF i \in old THEN 0 ELSE ClockStep IN
        [key |-> <<"near", i>>, posts |-> ThroughJSON(SomePosts), timestamp |-> t,
         expiresAt |-> t + QUERIES_maxAge]]

\* a key the filled store holds, and keys it does not
EvictPostKeys == {<<"all_posts", 0>>, <<"user", POSTS_maxSize>>}
EvictQueryKeys == {<<"near", 1>>, <<"near", QUERIES_maxSize + 1>>,
                   <<"near", QUERIES_maxSize + 2>>}

InitEvict ==
    /\ InitSync(MaxDrains) /\ isOnline /\ backend = "ok"
    /\ now = ClockStep
    /\ version = "1.0.0"
    /\ \E old \in SUBSET ProbePlaces(POSTS_maxSize) : postsStore = FilledPosts(old)
    /\ \E old \in SUBSET ProbePlaces(QUERIES_maxSize) :
          queriesStore = FilledQueries(old)
    /\ imagesStore = <<>>
    /\ imagesDB = {}
    /\ fetching = {}
    /\ queryBuild = [k \in AllQueryKeys |-> "1.0.0"]
    /\ uncaught = FALSE

NextEvict ==
    \/ \E k \in EvictPostKeys : cachePosts(SomePosts, k)
    \/ \E k \in EvictQueryKeys : cacheQuery(k, SomePosts)

SpecEvict == InitEvict /\ [][NextEvict]_vars

(***************************************************************************)
(* State functions the properties read.                                    *)
(***************************************************************************)
\* BackgroundSyncService.getStatus()
getStatus ==
    [isActive |-> syncInterval, lastSyncTime |-> lastSyncTime,
     pendingOperations |-> Len(queue), syncInProgress |-> syncInProgress,
     errors |-> errors]

ErrorIds(errs) == {errs[k].id : k \in 1..Len(errs)}

\* the suspended performSync calls
ActiveDrains == {d \in DOMAIN drains : drains[d].pc # "idle"}

\* backend writes for operation id that were issued and have not settled
SyncWrites(id) ==
    {<<d, i>> \in (DOMAIN drains) \X (1..batchSize) :
        /\ i <= Len(drains[d].st)
        /\ drains[d].st[i] = "write"
        /\ drains[d].ops[drains[d].start + i].id = id}

QueueWrites(id) == IF pq.pc = "write" /\ pq.ops[pq.idx].id = id THEN 1 ELSE 0

InFlight(id) == QueueWrites(id) + Cardinality(SyncWrites(id))

RetryCountOf(q, id) == q[FindIndex(q, id)].retryCount

(***************************************************************************)
(* Properties.                                                             *)
(***************************************************************************)

\* C1: an operation whose backend write never succeeded has at most
\* MAX_RETRY_COUNT attempts in all (failed ones plus those in flight), and is
\* no longer in the queue once MAX_RETRY_COUNT of them have failed.
C1_RetryExhaustion ==
    \A id \in Ids :
        id \notin written =>
            /\ fails[id] + InFlight(id) <= MAX_RETRY_COUNT
            /\ fails[id] >= MAX_RETRY_COUNT => id \notin QueueIds(queue)

\* C2: once the backend write of an operation has succeeded, no other write of
\* that operation is outstanding: it was submitted once.
C2_WrittenOnce == \A id \in written : InFlight(id) = 0

\* C3: a step that drops an operation by retry exhaustion leaves an entry for
\* it in the errors of the status.
C3_DropReported ==
    [][\A id \in dropped' \ dropped : id \in ErrorIds(getStatus'.errors)]_vars

\* C4: a failed attempt inside a coordinator drain advances the retryCount of
\* the operation, if still queued, by exactly one.
C4_SyncFailureCounts ==
    [][\A d \in DOMAIN drains, i \in 1..batchSize :
          (/\ syncOperationReturn(d, i)
           /\ updateProfile(drains[d].ops[drains[d].start + i]) # "ok"
           /\ drains[d].ops[drains[d].start + i].id \in QueueIds(queue))
          => LET id == drains[d].ops[drains[d].start + i].id IN
               /\ id \in QueueIds(queue')
               /\ RetryCountOf(queue', id) = RetryCountOf(queue, id) + 1]_vars

\* C5: the persisted snapshot always rehydrates to the queue in memory.
C5_PersistedEqualsMemory == loadQueueFromStorage(storage) = queue

\* C6: syncInProgress is set whenever a performSync call is suspended, and a
\* non-forced performSync (timer tick, service worker message) starts a drain
\* only when no other drain of the coordinator is running.
C6_NoOverlap ==
    [][/\ ActiveDrains' # {} => syncInProgress'
       /\ ((TimerTick \/ ServiceWorkerSync) /\ ActiveDrains' # ActiveDrains)
            => ActiveDrains = {}]_vars

\* C7: no backend write is ever outstanding that the Operation Queue issued.
C7_OnlyCoordinatorWrites == \A id \in Ids : QueueWrites(id) = 0

\* C8: after an operation got a permanent error, no further backend write is
\* started for it.
C8_PermanentNotRetried ==
    [][\A id \in permFailed : InFlight(id)' <= InFlight(id)]_vars

\* C9: the errors list of the status never holds more than 5 entries.
C9_ErrorsBounded == Len(getStatus.errors) <= LastErrorsShown

\* C10: if from some point on the client stays online and the backend
\* answers every write with success, every queued operation eventually
\* leaves the queue.
C10_QueueDrains ==
    (<>[](isOnline /\ backend = "ok"))
        => \A id \in 1..MaxLiveOps :
              [](id \in QueueIds(queue) => <>(id \notin QueueIds(queue)))

\* C10, the case it is about: the client is online, the backend answers, a
\* coordinator drain is running, and the queue holds an operation that is not
\* in that drain's snapshot.
C10_Witness ==
    /\ isOnline
    /\ backend = "ok"
    /\ \E d \in ActiveDrains : \E id \in QueueIds(queue) :
          id \notin QueueIds(drains[d].ops)

\* C11: a step that takes the connectivity state from offline to online (the
\* platform's online event or a reachability probe that succeeded) while the
\* queue is non-empty leaves a drain of the queue running whose remaining
\* snapshot holds every pending operation.
C11_ReconnectDrains ==
    [][(/\ ~isOnline
        /\ Len(queue) > 0
        /\ (OnlineEvent \/ checkConnectionStatus(TRUE)))
       => /\ processingQueue'
          /\ \A id \in QueueIds(queue) :
                \E i \in pq'.idx..Len(pq'.ops) : pq'.ops[i].id = id]_vars

\* C12: a step in which a performSync call ends, after its last batch or on
\* an empty queue, leaves syncInProgress false; and whenever no performSync
\* call is suspended syncInProgress is false, so that a non-forced trigger
\* passes the guard.
C12_FlagReset ==
    /\ [](ActiveDrains = {} => ~syncInProgress)
    /\ [][(\/ \E d \in ActiveDrains : d \notin ActiveDrains'
           \/ Len(queue) = 0 /\ (TimerTick \/ ServiceWorkerSync \/ forceSyncNow))
          => ~syncInProgress']_vars

\* C12, the case it is about: a drain that had failures has ended and no
\* other is running.
C12_Witness ==
    /\ ActiveDrains = {}
    /\ lastSyncTime = 1
    /\ Len(errors) > 0
    /\ Len(queue) > 0

\* C13: a non-forced performSync (timer tick or service worker message) called
\* while syncInProgress is true changes neither the queue, its persisted
\* snapshot, syncInProgress, lastSyncTime, the errors nor the suspended
\* drains, starts no backend write, and returns a result that is no success.
C13_BusyNoOp ==
    [][((TimerTick \/ ServiceWorkerSync) /\ syncInProgress)
       => /\ UNCHANGED <<queue, storage, syncInProgress, lastSyncTime, errors,
                         drains>>
          /\ \A id \in Ids : InFlight(id)' = InFlight(id)
          /\ ~AlreadyInProgress.success]_vars

\* C13, the case it is about: a drain is running with the flag set, the timer
\* is armed and a slot for another call is free.
C13_Witness ==
    /\ syncInProgress
    /\ syncInterval
    /\ ActiveDrains # {}
    /\ ActiveDrains # DOMAIN drains

\* C14: within a drain the snapshot is in queue order and is processed in
\* consecutive batches of at most batchSize operations: the members of the
\* next batch are started only by a step taken when every member of the
\* current batch has settled; a step settles at most one member and leaves
\* the states of its siblings as they are, whatever the outcome; and the
\* drain ends only when the members of its last batch have settled.
C14_BatchesInSequence ==
    /\ [](\A d \in ActiveDrains :
            LET dr == drains[d] IN
              /\ \A k \in 1..(Len(dr.ops) - 1) : dr.ops[k].id < dr.ops[k + 1].id
              /\ dr.start % batchSize = 0
              /\ Len(dr.st) = Min(batchSize, Len(dr.ops) - dr.start)
              /\ dr.pc = "pause" => AllSettled(dr.st))
    /\ [][\A d \in ActiveDrains :
            LET dr == drains[d] IN
            IF d \in ActiveDrains'
            THEN /\ drains'[d].ops = dr.ops
                 /\ \/ /\ drains'[d].start = dr.start
                       /\ Cardinality({i \in 1..Len(dr.st) :
                                          drains'[d].st[i] # dr.st[i]}) <= 1
                       /\ \A i \in 1..Len(dr.st) :
                             dr.st[i] \notin {"import", "write"}
                               => drains'[d].st[i] = dr.st[i]
                    \/ /\ drains'[d].start = dr.start + batchSize
                       /\ AllSettled(dr.st)
                       /\ \A i \in 1..Len(drains'[d].st) : drains'[d].st[i] = "import"
            ELSE Restart
                 \/ /\ dr.start + batchSize >= Len(dr.ops)
                    /\ Cardinality({i \in 1..Len(dr.st) :
                                       dr.st[i] \in {"import", "write"}}) = 1]_vars

\* C14, the case it is about: the second batch of a drain is running after an
\* operation of the first batch failed.
C14_Witness ==
    \E d \in ActiveDrains :
        /\ drains[d].pc = "batch"
        /\ drains[d].start = batchSize
        /\ \E k \in 1..batchSize : fails[drains[d].ops[k].id] > 0
        /\ \E k \in 1..batchSize : drains[d].ops[k].id \in written

\* getPendingOperations(): a copy of the queue
getPendingOperations == [i \in 1..Len(queue) |-> queue[i]]

\* ids are handed out in enqueue order: q lists its entries as enqueued
InEnqueueOrder(q) == \A i \in 1..(Len(q) - 1) : q[i].id < q[i + 1].id

\* C15: getPendingOperations and the persisted snapshot list the operations
\* in the order they were enqueued; saving and loading the queue gives the
\* queue back; addToQueue appends one entry with retryCount 0 at the tail; and
\* no step reorders the entries that stay or changes their type or data, and
\* in a running process the only change of a retryCount is the increment of
\* the operation whose write just failed.
C15_Fifo ==
    /\ [](/\ InEnqueueOrder(getPendingOperations)
          /\ InEnqueueOrder(loadQueueFromStorage(storage))
          /\ loadQueueFromStorage(saveQueueToStorage(queue)) = queue)
    /\ [][/\ nextId' # nextId
             => /\ Len(queue') = Len(queue) + 1
                /\ SubSeq(queue', 1, Len(queue)) = queue
                /\ queue'[Len(queue')].id = nextId
                /\ queue'[Len(queue')].retryCount = 0
          /\ \A i, j \in 1..Len(queue) : \A k, l \in 1..Len(queue') :
                (i < j /\ queue'[k].id = queue[i].id /\ queue'[l].id = queue[j].id)
                  => k < l
          /\ \A i \in 1..Len(queue) : \A k \in 1..Len(queue') :
                queue'[k].id = queue[i].id
                  => /\ queue'[k].type = queue[i].type
                     /\ queue'[k].data = queue[i].data
                     /\ Restart
                        \/ queue'[k].retryCount = queue[i].retryCount
                        \/ /\ queue'[k].retryCount = queue[i].retryCount + 1
                           /\ pq.pc = "write"
                           /\ pq.ops[pq.idx].id = queue[i].id]_vars

\* C15, the case it is about: of two queued operations the later one has been
\* retried and the queue was saved since.
C15_Witness ==
    /\ Len(queue) = 2
    /\ queue[2].retryCount > 0
    /\ storage = saveQueueToStorage(queue)

\* OfflineQueueService.getStatus().queuedOperations, what the queue's
\* subscribers are notified with
queuedOperations == Len(queue)

\* no backend write has failed so far
NoFailure == \A id \in Ids : fails[id] = 0

\* C16 as stated: while no write has failed, the pending count the
\* subscribers see never grows but by an enqueue, a drain that ends without
\* errors has removed every operation of its snapshot (down to 0 when nothing
\* was enqueued meanwhile), and within a drain of at most batchSize
\* operations, once all their writes are issued, each removal takes the
\* operation enqueued first.
C16_CompletionInEnqueueOrder ==
    [][NoFailure' =>
         /\ nextId' = nextId => queuedOperations' <= queuedOperations
         /\ \A d \in ActiveDrains :
               (d \notin ActiveDrains' /\ errors' = <<>>)
                 => /\ QueueIds(drains[d].ops) \cap QueueIds(queue') = {}
                    /\ QueueIds(queue) \subseteq QueueIds(drains[d].ops)
                         => getStatus'.pendingOperations = 0
         /\ \A d \in ActiveDrains :
               (/\ Len(drains[d].ops) <= batchSize
                /\ \A i \in 1..Len(drains[d].st) : drains[d].st[i] # "import")
                 => \A id \in QueueIds(queue) \ QueueIds(queue') :
                       id = queue[1].id]_vars

\* C16 amended: while no write has failed, the pending count the subscribers
\* see never grows but by an enqueue, a drain that ends without errors has
\* removed every operation of its snapshot (down to 0 when nothing was
\* enqueued meanwhile), and an operation is removed in the step in which its
\* own backend write succeeds, whatever its place in the queue.
C16_DrainRemovesAll ==
    [][NoFailure' =>
         /\ nextId' = nextId => queuedOperations' <= queuedOperations
         /\ \A d \in ActiveDrains :
               (d \notin ActiveDrains' /\ errors' = <<>>)
                 => /\ QueueIds(drains[d].ops) \cap QueueIds(queue') = {}
                    /\ QueueIds(queue) \subseteq QueueIds(drains[d].ops)
                         => getStatus'.pendingOperations = 0
         /\ \A id \in QueueIds(queue) \ QueueIds(queue') :
               id \in written' \ written]_vars

\* C16, the case it is about: A, B, C were enqueued, their drain is running,
\* no write failed, and B is removed while A is still pending.
C16_Witness ==
    /\ nextId = 4
    /\ NoFailure
    /\ \E d \in ActiveDrains : Len(drains[d].ops) = 3
    /\ 2 \in written
    /\ 1 \in QueueIds(queue)
    /\ 2 \notin QueueIds(queue)

\* C17: a performSync that passes its guard and finds the queue empty starts
\* no backend write, leaves the queue and its persisted snapshot as they are,
\* ends with syncInProgress false and a status of 0 pending operations; the
\* queue and the flag after it are the same whatever the state before, so
\* that repeating it changes neither.
C17_EmptyDrainNoOp ==
    [][(/\ Len(queue) = 0
        /\ \/ forceSyncNow
           \/ (TimerTick \/ ServiceWorkerSync) /\ ~syncInProgress)
       => /\ queue' = <<>>
          /\ storage' = storage
          /\ drains' = drains
          /\ \A id \in Ids : InFlight(id)' = InFlight(id)
          /\ ~syncInProgress'
          /\ getStatus'.pendingOperations = 0
          /\ ~getStatus'.syncInProgress]_vars

\* C17, the case it is about: a drain has run although nothing was ever
\* enqueued.
C17_Witness ==
    /\ nextId = 1
    /\ lastSyncTime = 1
    /\ queue = <<>>
    /\ ~syncInProgress

\* C18: for every entry of the posts cache (results and per-user
\* collections) and of the query cache that was written under the current
\* version, the getter returns the entry's data exactly when now < expiresAt,
\* and null at expiresAt and later.
C18_CacheTtl ==
    /\ \A k \in PostKeys :
          LET i == EntryIndex(postsStore, k) IN
          (i # 0 /\ postsStore[i].version = version)
            => /\ now < postsStore[i].expiresAt
                    => getCachedPostsResult(k) = Hit(postsStore[i].data)
               /\ now >= postsStore[i].expiresAt => getCachedPostsResult(k) = Miss
    /\ \A k \in QueryKeys :
          LET i == EntryIndex(queriesStore, k) IN
          (i # 0 /\ queryBuild[k] = version)
            => /\ now < queriesStore[i].expiresAt
                    => getCachedQueryResult(k) = Hit(queriesStore[i].posts)
               /\ now >= queriesStore[i].expiresAt => getCachedQueryResult(k) = Miss

\* C19: an entry that was written under a version other than the current one
\* is never returned: the getter of its cache returns null for its key.
C19_OutdatedNeverReturned ==
    /\ \A k \in PostKeys :
          LET i == EntryIndex(postsStore, k) IN
          (i # 0 /\ postsStore[i].version # version)
            => getCachedPostsResult(k) = Miss
    /\ \A k \in QueryKeys :
          (EntryIndex(queriesStore, k) # 0 /\ queryBuild[k] # version)
            => getCachedQueryResult(k) = Miss

\* the blobs held by the blob store: their number and their sizes in all
BlobCount == Cardinality(imagesDB)

BlobBytes ==
    LET RECURSIVE Sum(_)
        Sum(S) == IF S = {} THEN 0
                  ELSE LET e == CHOOSE e \in S : TRUE IN e.size + Sum(S \ {e})
    IN Sum(imagesDB)

\* C20: the blobs held by the blob store, when each of them is within the
\* byte budget by itself, never take more than 50 MB in all and are never more
\* than 100.
C20_BlobBudget ==
    (\A e \in imagesDB : e.size <= IMAGES_maxSize)
      => /\ BlobBytes <= IMAGES_maxSize
         /\ BlobCount <= IMAGES_maxEntries

(***************************************************************************)
(* The size of the caches.                                                 *)
(***************************************************************************)
\* Object.keys(cache)
KeysOf(cache) == {cache[i].key : i \in 1..Len(cache)}

\* the keys of store `old` that store `new` no longer holds
KeysGone(old, new) == KeysOf(old) \ KeysOf(new)

\* a put of `key` took `old` to `new` by evicting one entry, an oldest one, and
\* not the entry it wrote
EvictsOldest(old, new, key) ==
    /\ Cardinality(KeysGone(old, new)) = 1
    /\ \A k \in KeysGone(old, new) :
          LET t == old[EntryIndex(old, k)].timestamp IN
          \A j \in 1..Len(old) : t <= old[j].timestamp
    /\ key \in KeysOf(new)
    /\ new[EntryIndex(new, key)].timestamp = now
    /\ Len(new) = Len(old)

\* C21: a cache never holds more entries than its maxSize (500 posts entries,
\* 50 queries); a put of a key the full cache does not hold evicts exactly one
\* entry, one with the smallest timestamp, and never the entry just written.
C21_CountEviction ==
    /\ [](Len(postsStore) <= POSTS_maxSize /\ Len(queriesStore) <= QUERIES_maxSize)
    /\ [][\A k \in EvictPostKeys :
             (/\ Len(postsStore) = POSTS_maxSize
              /\ EntryIndex(postsStore, k) = 0
              /\ cachePosts(SomePosts, k))
               => EvictsOldest(postsStore, postsStore', k)]_vars
    /\ [][\A k \in EvictQueryKeys :
             (/\ Len(queriesStore) = QUERIES_maxSize
              /\ EntryIndex(queriesStore, k) = 0
              /\ cacheQuery(k, SomePosts))
               => EvictsOldest(queriesStore, queriesStore', k)]_vars

\* both caches are full, hold a key that was put when they were full, and have
\* lost a key they held
C21_Witness ==
    /\ Len(postsStore) = POSTS_maxSize
    /\ EntryIndex(postsStore, <<"user", POSTS_maxSize>>) # 0
    /\ \E i \in 1..POSTS_maxSize : EntryIndex(postsStore, FilledPostKey(i)) = 0
    /\ Len(queriesStore) = QUERIES_maxSize
    /\ EntryIndex(queriesStore, <<"near", QUERIES_maxSize + 1>>) # 0
    /\ \E i \in 1..QUERIES_maxSize : EntryIndex(queriesStore, <<"near", i>>) = 0

(***************************************************************************)
(* What a get leaves in storage.                                           *)
(***************************************************************************)
\* the posts entry of a key is there and is expired or of another version
StalePosts(k) ==
    LET i == EntryIndex(postsStore, k) IN
    i # 0 /\ (now > postsStore[i].expiresAt \/ postsStore[i].version # version)

\* the query entry of a key is there and is expired or was written under
\* another version
StaleQuery(k) ==
    LET i == EntryIndex(queriesStore, k) IN
    i # 0 /\ (now > queriesStore[i].expiresAt \/ queryBuild[k] # version)

\* C22: a get that finds an expired or outdated entry returns null and
\* leaves storage without the entry; any other get leaves storage as it was.
C22_GetPurges ==
    /\ \A k \in PostKeys :
          IF StalePosts(k)
          THEN getCachedPostsResult(k) = Miss /\ k \notin KeysOf(postsAfterGet(k))
          ELSE postsAfterGet(k) = postsStore
    /\ \A k \in QueryKeys :
          IF StaleQuery(k)
          THEN getCachedQueryResult(k) = Miss /\ k \notin KeysOf(queriesAfterGet(k))
          ELSE queriesAfterGet(k) = queriesStore

(***************************************************************************)
(* Failures of the storage.                                                *)
(***************************************************************************)
\* C23: no operation of the cache lets a failure of the storage reach its
\* caller: no exception ever leaves a method of CacheService.
C23_FailuresAbsorbed == ~uncaught

(***************************************************************************)
(* What an invalidation removes.                                           *)
(***************************************************************************)
\* the entries of the result cache ('all_posts') and of the collection cache
\* of per-user results (`user_${userId}`) in localStorage[POSTS_CACHE_KEY]
ResultEntries(cache) == SelectSeq(cache, LAMBDA e : e.key[1] = "all_posts")
CollectionEntries(cache) == SelectSeq(cache, LAMBDA e : e.key[1] = "user")

\* C24: invalidatePostsCache(key) removes the entry of that key and no other;
\* invalidatePostsCache() removes the entries of the result cache and leaves
\* the per-user collection cache, the query cache and the blob cache as they
\* were.
C24_InvalidateFrame ==
    /\ [][\A k \in PostKeys :
             invalidatePostsCache(k) => postsStore' = DeleteEntry(postsStore, k)]_vars
    /\ [][invalidatePostsCache(NoKey)
             => /\ ResultEntries(postsStore') = <<>>
                /\ CollectionEntries(postsStore') = CollectionEntries(postsStore)
                /\ UNCHANGED <<queriesStore, imagesStore, imagesDB>>]_vars

(***************************************************************************)
(* What the sweep leaves.                                                  *)
(***************************************************************************)
\* C25: what a sweep leaves holds no expired entry: no posts entry and no
\* query past its expiresAt, no image older than 24 h in the index or in the
\* blob store.
C25_SweepPurges ==
    /\ \A i \in 1..Len(postsAfterSweep) : ~(now > postsAfterSweep[i].expiresAt)
    /\ \A i \in 1..Len(queriesAfterSweep) : ~(now > queriesAfterSweep[i].expiresAt)
    /\ \A i \in 1..Len(imagesAfterSweep) :
          ~(now - imagesAfterSweep[i].timestamp > IMAGES_maxAge)
    /\ \A e \in imagesDBAfterSweep : ~(now - e.timestamp > IMAGES_maxAge)

(***************************************************************************)
(* The round trip of an image.                                             *)
(***************************************************************************)
\* C26: an image that cacheImage stored, that is still in the blob store and
\* is not older than 24 h, is returned by getCachedImageBlob with the size it
\* was stored with.
C26_BlobRoundTrip ==
    \A e \in imagesDB :
        ~(now - e.timestamp > IMAGES_maxAge)
          => getCachedImageBlobResult(e.url) = Hit(<<e.size>>)

(***************************************************************************)
(* Stopping the automatic synchronisation.                                 *)
(***************************************************************************)
\* C27: while the client stays online, a timer that stopAutoSync() stopped
\* stays stopped until startAutoSync() is called: the only step that sets
\* the timer is that call, which changes nothing else.
C27_StaysStopped ==
    [][(~syncInterval /\ syncInterval') => UNCHANGED notTimerVars]_vars

(***************************************************************************)
(* The retry counter.                                                      *)
(***************************************************************************)
\* C28: every operation in the queue has 0 <= retryCount < MAX_RETRY_COUNT,
\* and the retryCount of an operation that stays in the queue never
\* decreases.
C28_RetryCountBounded ==
    /\ [](\A i \in 1..Len(queue) :
            queue[i].retryCount >= 0 /\ queue[i].retryCount < MAX_RETRY_COUNT)
    /\ [][\A id \in QueueIds(queue) \cap QueueIds(queue') :
             RetryCountOf(queue', id) >= RetryCountOf(queue, id)]_vars

(***************************************************************************)
(* Clearing the queue.                                                     *)
(***************************************************************************)
\* operation id was enqueued and has left the queue neither by a write that
\* succeeded nor by the exhaustion of its retries: clearQueue() removed it
Cleared(id) ==
    /\ id < nextId
    /\ id \notin QueueIds(queue)
    /\ id \notin written \cup dropped

\* C29: an operation that clearQueue() removed is not submitted to the
\* backend afterwards, by no drain, and does not come back into the queue.
C29_ClearedStaysCleared ==
    [][\A id \in Ids :
         Cleared(id) => /\ ~(InFlight(id)' > InFlight(id))
                        /\ id \notin QueueIds(queue')]_vars

(***************************************************************************)
(* Writes and connectivity.                                                *)
(***************************************************************************)
\* C30: a backend write is started only while isOnline is true.
C30_NoWriteOffline ==
    [][\A id \in Ids : (InFlight(id)' > InFlight(id)) => isOnline]_vars

====
